---- MODULE Spec2Model ----
(***************************************************************************)
(* Model of the study tracker's task store (utils/db_utils.py): the CSV    *)
(* backed table of todo rows and the operations that read the whole table, *)
(* change it in memory and rewrite it.                                     *)
(*                                                                         *)
(* Representation.                                                         *)
(*   - The file data/todos.csv is the sequence `todos` of rows, one record *)
(*     per CSV line, with the ten columns of CSV_HEADERS.                  *)
(*   - Text fields (title, steps, dates) are strings.  The check mark the  *)
(*     code writes in front of a completed step (U+2713) is written "+"    *)
(*     here; like the original it is one character that is neither a dash  *)
(*     nor white space.                                                    *)
(*   - The two hour columns hold fixed two-decimal strings ("2.00"); they  *)
(*     are modelled by the integer number of hundredths (200).  Numbers    *)
(*     that come in from a caller are integer thousandths, so that the     *)
(*     "%.2f" formatting is a rounding and not the identity.               *)
(*   - Calendar dates are "2025-01-0d" for a day number d.                 *)
(*   - generate_ulid() returns "u1", "u2", ...: a fresh id at every call.  *)
(*   - `taken` counts the steps taken so far (calls and changes of date),  *)
(*     and `last` records the last call: its name, the row it acted on,    *)
(*     its arguments and its result.                                       *)
(***************************************************************************)
EXTENDS Integers, Sequences, FiniteSets, TLC

VARIABLES todos, today, nextUlid, taken, last

vars == <<todos, today, nextUlid, taken, last>>

(* ------------------------------ bounds --------------------------------- *)

\* rows the table holds at most
MaxRows == 2

\* the last day number the date reaches
MaxDay == 2

\* ids generate_ulid() hands out at most
MaxUlid == 3

\* hundredths of hours update_todo_hours logs up to
MaxHours == 200

\* steps of a run: calls of the operations and changes of date
MaxSteps == 2

(* --------------------------- string helpers ---------------------------- *)

Range(s) == {s[i] : i \in 1..Len(s)}

IsSpace(c) == c \in {" ", "\n", "\t", "\r"}

RECURSIVE LStrip(_)
LStrip(s) ==
    IF s = "" THEN ""
    ELSE IF IsSpace(Head(s)) THEN LStrip(Tail(s)) ELSE s

RECURSIVE RStrip(_)
RStrip(s) ==
    IF s = "" THEN ""
    ELSE IF IsSpace(SubSeq(s, Len(s), Len(s)))
         THEN RStrip(SubSeq(s, 1, Len(s) - 1))
         ELSE s

\* str.strip()
Strip(s) == RStrip(LStrip(s))

\* str.startswith(p)
StartsWith(s, p) == Len(s) >= Len(p) /\ SubSeq(s, 1, Len(p)) = p

\* str.find(sep): the 1-based position of the first occurrence, 0 if none
Find(s, sep) ==
    LET hits == {i \in 1..(Len(s) - Len(sep) + 1) :
                    SubSeq(s, i, i + Len(sep) - 1) = sep}
    IN IF hits = {} THEN 0 ELSE CHOOSE i \in hits : \A j \in hits : i <= j

\* sep in s
Contains(s, sep) == Find(s, sep) # 0

\* str.split(sep)
RECURSIVE Split(_, _)
Split(s, sep) ==
    LET p == Find(s, sep)
    IN IF p = 0 THEN <<s>>
       ELSE <<SubSeq(s, 1, p - 1)>> \o Split(SubSeq(s, p + Len(sep), Len(s)), sep)

\* str.split(sep, 1)
Split1(s, sep) ==
    LET p == Find(s, sep)
    IN IF p = 0 THEN <<s>>
       ELSE <<SubSeq(s, 1, p - 1), SubSeq(s, p + Len(sep), Len(s))>>

\* sep.join(parts)
RECURSIVE Join(_, _)
Join(parts, sep) ==
    IF parts = <<>> THEN ""
    ELSE IF Len(parts) = 1 THEN parts[1]
    ELSE parts[1] \o sep \o Join(Tail(parts), sep)

\* s[:n]
Prefix(s, n) == SubSeq(s, 1, IF Len(s) < n THEN Len(s) ELSE n)

(* --------------------------- dates and numbers ------------------------- *)

\* date.isoformat() of day number d
IsoDate(d) == "2025-01-0" \o ToString(d)

\* datetime.now(America/New_York).date().isoformat()
TodayIso == IsoDate(today)

\* datetime.now(America/New_York).isoformat()
NowIso == IsoDate(today) \o "T09:00:00-05:00"

\* f"{x:.2f}" of x thousandths, as hundredths (round to nearest)
Fmt2(x) ==
    IF x >= 0 THEN (x + 5) \div 10 ELSE -((-x + 5) \div 10)

\* max(0.0, x)
Max0(x) == IF x < 0 THEN 0 ELSE x

\* float() on the literals the callers use; every other text raises ValueError
FloatOf ==
    ("0" :> 0) @@ ("0.00" :> 0) @@ ("0.004" :> 4) @@ ("1.00" :> 1000)
    @@ ("2.0" :> 2000) @@ ("2.00" :> 2000) @@ ("-1" :> -1000)
    @@ ("-1.00" :> -1000) @@ ("-2.00" :> -2000) @@ ("3.00" :> 3000)

IsFloat(s) == s \in DOMAIN FloatOf

(* ------------------------------ the table ------------------------------ *)

CSV_HEADERS ==
    <<"id", "title", "due_date", "estimated_hours", "hours_logged",
      "priority", "status", "steps", "created_at", "completed_at">>

\* the row standing for "no row"
NoRow ==
    [id |-> "", title |-> "", due_date |-> "", estimated_hours |-> 0,
     hours_logged |-> 0, priority |-> "", status |-> "", steps |-> "",
     created_at |-> "", completed_at |-> ""]

\* the n-th value generate_ulid() returns
Ulid(n) == "u" \o ToString(n)

generate_ulid == Ulid(nextUlid)

\* index of the first row with this id (every update loop breaks at the
\* first hit); 0 when no row has it
FirstIdx(rows, todo_id) ==
    LET hits == {i \in 1..Len(rows) : rows[i].id = todo_id}
    IN IF hits = {} THEN 0 ELSE CHOOSE i \in hits : \A j \in hits : i <= j

\* the record of a call: op its name, idx the row it acted on (0: none),
\* arg and flag its arguments, res what it returned ("none": nothing,
\* "ok" / "error": the ok flag of a result, "raised": an exception), missing
\* the columns an import error names, added and total the counts an import
\* returns, pre the row at idx before the call, header and rows the CSV an
\* import was given (flag: whether it had a header line at all)
NoCall ==
    [op |-> "init", idx |-> 0, arg |-> "", flag |-> FALSE, res |-> "none",
     missing |-> <<>>, added |-> 0, total |-> 0, pre |-> NoRow,
     header |-> {}, rows |-> <<>>]

\* a call that found no row to act on is recorded by its name alone
Called(op, idx, arg, flag) ==
    IF idx = 0 THEN [NoCall EXCEPT !.op = op]
    ELSE [NoCall EXCEPT !.op = op, !.idx = idx, !.arg = arg, !.flag = flag,
                        !.pre = todos[idx]]

(* ------------------------------- steps --------------------------------- *)

\* the mark of a completed step (U+2713 in the source)
CheckMark == "+"

StepId(i) == "step_" \o ToString(i)

RECURSIVE ParseLines(_, _)
ParseLines(lines, i) ==
    IF lines = <<>> THEN <<>>
    ELSE LET line == Strip(Head(lines))
             completed == StartsWith(line, CheckMark)
         IN (IF StartsWith(line, "-") \/ StartsWith(line, CheckMark)
             THEN <<[id |-> StepId(i),
                     description |-> Strip(Tail(line)),
                     completed |-> completed,
                     order |-> i]>>
             ELSE <<>>)
            \o ParseLines(Tail(lines), i + 1)

parse_steps(steps_str) ==
    IF steps_str = "" \/ Strip(steps_str) = "" THEN <<>>
    ELSE ParseLines(Split(Strip(steps_str), "\n"), 0)

\* sorted(steps_list, key=order): a stable insertion sort
RECURSIVE SortedByOrder(_)
SortedByOrder(steps_list) ==
    IF steps_list = <<>> THEN <<>>
    ELSE LET n == Len(steps_list)
             init == SortedByOrder(SubSeq(steps_list, 1, n - 1))
             x == steps_list[n]
             keep == {i \in 1..Len(init) : init[i].order <= x.order}
             k == Cardinality(keep)
         IN SubSeq(init, 1, k) \o <<x>> \o SubSeq(init, k + 1, Len(init))

\* a line that writes every step as not completed
StepLine_AlwaysPending(step) == "- " \o step.description

StepLine(step) ==
    (IF step.completed THEN CheckMark ELSE "-") \o " " \o step.description

format_steps(steps_list) ==
    IF steps_list = <<>> THEN ""
    ELSE LET sorted == SortedByOrder(steps_list)
         IN Join([i \in 1..Len(sorted) |-> StepLine(sorted[i])], "\n")

\* all(step["completed"] for step in steps), with steps non-empty
AllCompleted(steps) ==
    steps # <<>> /\ \A i \in 1..Len(steps) : steps[i].completed

(* ------------------------------ operations ----------------------------- *)

Init ==
    /\ todos = <<>>
    /\ today = 1
    /\ nextUlid = 1
    /\ taken = 0
    /\ last = NoCall

\* the local date moves on
Tick ==
    /\ today < MaxDay
    /\ taken < MaxSteps
    /\ today' = today + 1
    /\ taken' = taken + 1
    /\ last' = [NoCall EXCEPT !.op = "tick"]
    /\ UNCHANGED <<todos, nextUlid>>

add_todo(title, due_date, estimated_hours, priority, steps) ==
    /\ taken < MaxSteps
    /\ Len(todos) < MaxRows
    /\ nextUlid <= MaxUlid
    /\ LET new_row ==
               [id |-> generate_ulid,
                title |-> Strip(title),
                due_date |-> due_date,
                estimated_hours |-> Fmt2(estimated_hours),
                hours_logged |-> Fmt2(0),
                priority |-> priority,
                status |-> "todo",
                steps |-> Strip(steps),
                created_at |-> NowIso,
                completed_at |-> ""]
       IN /\ todos' = Append(todos, new_row)
          /\ last' = [NoCall EXCEPT !.op = "add_todo", !.idx = Len(todos) + 1]
    /\ nextUlid' = nextUlid + 1
    /\ taken' = taken + 1
    /\ UNCHANGED today

\* the hours written when a task becomes done: the row after the
\* auto-logging of update_todo_status
AutoLogged(row) ==
    IF row.hours_logged * 10 = 0
    THEN IF row.estimated_hours * 10 = 0
         THEN [row EXCEPT !.estimated_hours = 100, !.hours_logged = Fmt2(1000)]
         ELSE [row EXCEPT !.hours_logged = Fmt2(row.estimated_hours * 10)]
    ELSE row

\* StatusSet without the else branch that clears completed_at
StatusSet_KeepsCompletedAt(row, status) ==
    LET r1 == [row EXCEPT !.status = status]
    IN IF status = "done"
       THEN AutoLogged([r1 EXCEPT !.completed_at = TodayIso])
       ELSE r1

\* the body of the loop of update_todo_status for the row that matches
StatusSet(row, status) ==
    LET r1 == [row EXCEPT !.status = status]
    IN IF status = "done"
       THEN AutoLogged([r1 EXCEPT !.completed_at = TodayIso])
       ELSE [r1 EXCEPT !.completed_at = ""]

\* the shape every update shares: read_todos, change the first row with
\* the id, write_todos
Update(op, todo_id, arg, flag, new_row) ==
    LET i == FirstIdx(todos, todo_id)
    IN /\ taken < MaxSteps
       /\ todos' = IF i = 0 THEN todos ELSE [todos EXCEPT ![i] = new_row]
       /\ last' = Called(op, i, arg, flag)
       /\ taken' = taken + 1
       /\ UNCHANGED <<today, nextUlid>>

Row(todo_id) ==
    LET i == FirstIdx(todos, todo_id) IN IF i = 0 THEN NoRow ELSE todos[i]

update_todo_status(todo_id, status) ==
    Update("update_todo_status", todo_id, status, FALSE,
           StatusSet(Row(todo_id), status))

HoursAdded(row, hours_delta) ==
    [row EXCEPT !.hours_logged = Fmt2(Max0(row.hours_logged * 10 + hours_delta))]

update_todo_hours(todo_id, hours_delta) ==
    /\ Fmt2(Max0(Row(todo_id).hours_logged * 10 + hours_delta)) <= MaxHours
    /\ Update("update_todo_hours", todo_id, "", FALSE,
              HoursAdded(Row(todo_id), hours_delta))

\* estimated_hours is None ("None" here) or a number or its text
EstimateSet(row, estimated_hours) ==
    LET estimated_hours_float ==
            IF estimated_hours = "None" THEN 0 ELSE FloatOf[estimated_hours]
    IN [row EXCEPT !.estimated_hours = Fmt2(Max0(estimated_hours_float))]

update_todo_estimated_hours(todo_id, estimated_hours) ==
    Update("update_todo_estimated_hours", todo_id, "", FALSE,
           EstimateSet(Row(todo_id), estimated_hours))

\* DueDateSet writing the completed_at column of its twin
DueDateSet_WrongColumn(row, is_date, day, text) ==
    [row EXCEPT !.completed_at = IF is_date THEN IsoDate(day) ELSE text]

\* due_date is a date object (is_date, day) or anything else (text)
DueDateSet(row, is_date, day, text) ==
    [row EXCEPT !.due_date = IF is_date THEN IsoDate(day) ELSE text]

update_todo_due_date(todo_id, is_date, day, text) ==
    Update("update_todo_due_date", todo_id, "", FALSE,
           DueDateSet(Row(todo_id), is_date, day, text))

\* dateutil's parser on the texts the callers use: an ISO date, alone or
\* followed by a time, parses; every other text raises
Parsable(text) ==
    /\ Len(text) >= 10
    /\ \E d \in 1..9 : Prefix(text, 10) = IsoDate(d)
    /\ Len(text) = 10 \/ SubSeq(text, 11, 11) \in {"T", " "}

\* dtparser.parse(text).date().isoformat(), which for a text that parses is
\* its date part; text[:10] when the parser raises
NormDate(text) ==
    IF Parsable(text) THEN SubSeq(text, 1, 10) ELSE Prefix(text, 10)

CompletedAtSet(row, is_date, day, text) ==
    IF is_date
    THEN [row EXCEPT !.completed_at = IsoDate(day)]
    ELSE LET t == Strip(text)
         IN [row EXCEPT !.completed_at = IF t # "" THEN NormDate(t) ELSE ""]

update_todo_completed_at(todo_id, is_date, day, text) ==
    Update("update_todo_completed_at", todo_id, text, is_date,
           CompletedAtSet(Row(todo_id), is_date, day, text))

\* a delete that removes only the first row with the id
delete_todo_FirstOnly(todo_id) ==
    LET i == FirstIdx(todos, todo_id)
    IN /\ taken < MaxSteps
       /\ todos' = IF i = 0 THEN todos
                   ELSE SubSeq(todos, 1, i - 1) \o SubSeq(todos, i + 1, Len(todos))
       /\ last' = Called("delete_todo", i, todo_id, FALSE)
       /\ taken' = taken + 1
       /\ UNCHANGED <<today, nextUlid>>

delete_todo(todo_id) ==
    /\ taken < MaxSteps
    /\ todos' = SelectSeq(todos, LAMBDA r : r.id # todo_id)
    /\ last' = Called("delete_todo", FirstIdx(todos, todo_id), todo_id, FALSE)
    /\ taken' = taken + 1
    /\ UNCHANGED <<today, nextUlid>>

\* the steps of the row after step_id is set to completed
StepsSet(steps, step_id, completed) ==
    LET hits == {i \in 1..Len(steps) : steps[i].id = step_id}
    IN IF hits = {} THEN steps
       ELSE LET k == CHOOSE i \in hits : \A j \in hits : i <= j
            IN [steps EXCEPT ![k].completed = completed]

\* StepSet that completes the task without the completion date
StepSet_NoCompletedAt(row, step_id, completed) ==
    LET steps == StepsSet(parse_steps(row.steps), step_id, completed)
        r1 == [row EXCEPT !.steps = format_steps(steps)]
    IN IF AllCompleted(steps)
       THEN AutoLogged([r1 EXCEPT !.status = "done"])
       ELSE r1

\* StepSet that reopens a task whose steps are not all completed
StepSet_Reopens(row, step_id, completed) ==
    LET steps == StepsSet(parse_steps(row.steps), step_id, completed)
        r1 == [row EXCEPT !.steps = format_steps(steps)]
    IN IF AllCompleted(steps)
       THEN AutoLogged([r1 EXCEPT !.status = "done", !.completed_at = TodayIso])
       ELSE [r1 EXCEPT !.status = "todo", !.completed_at = ""]

\* an auto-logging that logs no hour for a task without an estimate
AutoLoggedByStep_NoDefaultHour(row) ==
    IF row.hours_logged * 10 = 0
    THEN [row EXCEPT !.hours_logged = Fmt2(row.estimated_hours * 10)]
    ELSE row

\* the auto-logging update_todo_step carries itself
AutoLoggedByStep(row) ==
    IF row.hours_logged * 10 = 0
    THEN LET estimated_hours == row.estimated_hours * 10
         IN IF estimated_hours = 0
            THEN [row EXCEPT !.estimated_hours = 100,
                             !.hours_logged = Fmt2(1000)]
            ELSE [row EXCEPT !.hours_logged = Fmt2(estimated_hours)]
    ELSE row

StepSet(row, step_id, completed) ==
    LET steps == StepsSet(parse_steps(row.steps), step_id, completed)
        r1 == [row EXCEPT !.steps = format_steps(steps)]
    IN IF AllCompleted(steps)
       THEN AutoLoggedByStep([r1 EXCEPT !.status = "done", !.completed_at = TodayIso])
       ELSE r1

update_todo_step(todo_id, step_id, completed) ==
    Update("update_todo_step", todo_id, step_id, completed,
           StepSet(Row(todo_id), step_id, completed))

\* the row get_todo_steps leaves: a task without steps whose title holds
\* " - " gets one pending step, the text after the separator
StepsDerived(row) ==
    LET steps == parse_steps(row.steps)
    IN IF steps = <<>> /\ Contains(row.title, " - ")
       THEN LET title_parts == Split1(row.title, " - ")
            IN IF Len(title_parts) > 1
               THEN [row EXCEPT !.steps =
                        format_steps(<<[id |-> "step_0",
                                        description |-> Strip(title_parts[2]),
                                        completed |-> FALSE,
                                        order |-> 0]>>)]
               ELSE row
       ELSE row

\* the list get_todo_steps returns for the row: the step it made of the
\* title, else the steps parsed of the blob
StepsReturned(row) ==
    LET steps == parse_steps(row.steps)
    IN IF steps = <<>> /\ Contains(row.title, " - ")
          /\ Len(Split1(row.title, " - ")) > 1
       THEN <<[id |-> "step_0",
               description |-> Strip(Split1(row.title, " - ")[2]),
               completed |-> FALSE,
               order |-> 0]>>
       ELSE steps

\* rows of the record of the call holds the list returned
get_todo_steps(todo_id) ==
    LET i == FirstIdx(todos, todo_id)
    IN /\ taken < MaxSteps
       /\ todos' = IF i = 0 THEN todos
                   ELSE [todos EXCEPT ![i] = StepsDerived(todos[i])]
       /\ last' = IF i = 0 THEN Called("get_todo_steps", i, "", FALSE)
                  ELSE [Called("get_todo_steps", i, "", FALSE) EXCEPT
                           !.rows = StepsReturned(todos[i])]
       /\ taken' = taken + 1
       /\ UNCHANGED <<today, nextUlid>>

(* -------------------------------- import ------------------------------- *)

CoreColumns == <<"title", "due_date", "estimated_hours", "priority", "status">>

TripleColumns == {"category", "project", "task"}

\* MissingCore that stops at the first column the header lacks
MissingCore_FirstOnly(header) ==
    LET all == SelectSeq(CoreColumns,
                         LAMBDA c : c \notin header /\ ~(TripleColumns \subseteq header))
    IN IF all = <<>> THEN <<>> ELSE <<Head(all)>>

\* missing_core: the core columns the header lacks, none when the header
\* has the whole category/project/task triple
MissingCore(header) ==
    SelectSeq(CoreColumns,
              LAMBDA c : c \notin header /\ ~(TripleColumns \subseteq header))

\* row.get(c) or "": the cell of a column of the header, "" for any other
Cell(header, row, c) == IF c \in header THEN row[c] ELSE ""

\* x or d
Or(x, d) == IF x = "" THEN d ELSE x

\* the title of a CSV row: its title cell, else the non-empty ones of
\* category, project and task joined by " / "
TitleCsv(header, row) ==
    LET title_csv == Strip(Cell(header, row, "title"))
        three == <<Strip(Cell(header, row, "category")),
                   Strip(Cell(header, row, "project")),
                   Strip(Cell(header, row, "task"))>>
        parts == SelectSeq(three, LAMBDA p : p # "")
    IN IF title_csv # "" THEN title_csv ELSE Join(parts, " / ")

\* float(cell or 0) raises on this row
BadNumber(header, row) ==
    \E c \in {"estimated_hours", "hours_logged"} :
        Cell(header, row, c) # "" /\ ~IsFloat(Cell(header, row, c))

NumberCell(header, row, c) ==
    IF Cell(header, row, c) = "" THEN 0 ELSE FloatOf[Cell(header, row, c)]

\* new_row of the import loop; n is the number of ids generated so far
NewRow(header, row, n) ==
    LET completed_at_raw == Strip(Cell(header, row, "completed_at"))
    IN [id |-> Or(Strip(Cell(header, row, "id")), Ulid(n)),
        title |-> TitleCsv(header, row),
        due_date |-> Strip(Cell(header, row, "due_date")),
        estimated_hours |-> Fmt2(NumberCell(header, row, "estimated_hours")),
        hours_logged |-> Fmt2(NumberCell(header, row, "hours_logged")),
        priority |-> Or(Strip(Or(Cell(header, row, "priority"), "Medium")), "Medium"),
        status |-> Or(Strip(Or(Cell(header, row, "status"), "todo")), "todo"),
        steps |-> Strip(Cell(header, row, "steps")),
        created_at |-> Or(Cell(header, row, "created_at"), NowIso),
        completed_at |-> IF completed_at_raw # "" THEN NormDate(completed_at_raw)
                         ELSE ""]

\* ImportLoop that ends the loop at a bad number and keeps the rows so far
RECURSIVE ImportLoop_KeepsRowsSoFar(_, _, _, _)
ImportLoop_KeepsRowsSoFar(header, rows, existing, n) ==
    IF rows = <<>> THEN [existing |-> existing, n |-> n, raised |-> FALSE]
    ELSE LET row == Head(rows)
         IN IF TitleCsv(header, row) = ""
            THEN ImportLoop_KeepsRowsSoFar(header, Tail(rows), existing, n)
            ELSE LET gen == Strip(Cell(header, row, "id")) = ""
                     n1 == IF gen THEN n + 1 ELSE n
                 IN IF BadNumber(header, row)
                    THEN [existing |-> existing, n |-> n1, raised |-> FALSE]
                    ELSE ImportLoop_KeepsRowsSoFar(header, Tail(rows),
                             Append(existing, NewRow(header, row, n)), n1)

\* the loop over the CSV rows: existing grows by one row per CSV row with a
\* title, until the rows end or a number cell raises
RECURSIVE ImportLoop(_, _, _, _)
ImportLoop(header, rows, existing, n) ==
    IF rows = <<>> THEN [existing |-> existing, n |-> n, raised |-> FALSE]
    ELSE LET row == Head(rows)
         IN IF TitleCsv(header, row) = ""
            THEN ImportLoop(header, Tail(rows), existing, n)
            ELSE LET gen == Strip(Cell(header, row, "id")) = ""
                     n1 == IF gen THEN n + 1 ELSE n
                 IN IF BadNumber(header, row)
                    THEN [existing |-> existing, n |-> n1, raised |-> TRUE]
                    ELSE ImportLoop(header, Tail(rows),
                                    Append(existing, NewRow(header, row, n)), n1)

\* an import that forgets the replace mode and always reads the table
Existing_AlwaysReads(mode) == todos

\* the rows an import starts from: none when replacing, the table otherwise
Existing(mode) == IF mode = "replace" THEN <<>> ELSE todos

\* content is a CSV text: has_header is false for a text without a line,
\* header is the set of its column names, rows are the records of its lines
import_todos_csv(has_header, header, rows, mode) ==
    /\ taken < MaxSteps
    /\ taken' = taken + 1
    /\ UNCHANGED today
    /\ LET call == [NoCall EXCEPT !.op = "import_todos_csv", !.arg = mode,
                                  !.flag = has_header, !.header = header,
                                  !.rows = rows]
       IN IF ~has_header
          THEN /\ last' = [call EXCEPT !.res = "raised"]
               /\ UNCHANGED <<todos, nextUlid>>
          ELSE IF MissingCore(header) # <<>>
          THEN /\ last' = [call EXCEPT !.res = "error",
                                       !.missing = MissingCore(header)]
               /\ UNCHANGED <<todos, nextUlid>>
          ELSE LET existing == Existing(mode)
                   done == ImportLoop(header, rows, existing, nextUlid)
               IN /\ Len(done.existing) <= MaxRows
                  /\ done.n <= MaxUlid + 1
                  /\ nextUlid' = done.n
                  /\ IF done.raised
                     THEN /\ last' = [call EXCEPT !.res = "raised"]
                          /\ UNCHANGED todos
                     ELSE /\ todos' = done.existing
                          /\ last' = [call EXCEPT
                                 !.res = "ok",
                                 !.added = Len(done.existing) - Len(existing),
                                 !.total = Len(done.existing)]

(* -------------------------------- export ------------------------------- *)

\* the text a stored number of hours has in the file: f"{x:.2f}"
Fmt2Text ==
    (-200 :> "-2.00") @@ (-100 :> "-1.00") @@ (0 :> "0.00")
    @@ (100 :> "1.00") @@ (200 :> "2.00") @@ (300 :> "3.00")

\* the text of a column of a stored row
FieldText(row, c) ==
    IF c \in {"estimated_hours", "hours_logged"} THEN Fmt2Text[row[c]]
    ELSE row[c]

\* a field as csv.DictWriter writes it: quoted, its quotes doubled, when it
\* holds a comma, a quote or a line break
CsvQuoted(s) ==
    IF \E c \in {",", "\"", "\n", "\r"} : Contains(s, c)
    THEN "\"" \o Join(Split(s, "\""), "\"\"") \o "\""
    ELSE s

\* a field as csv.DictReader reads it
CsvUnquoted(f) ==
    IF StartsWith(f, "\"")
    THEN Join(Split(SubSeq(f, 2, Len(f) - 1), "\"\""), "\"")
    ELSE f

\* the exported file of a table: the header line and one record per row
ExportOf(table) ==
    [header |-> CSV_HEADERS,
     records |-> [i \in DOMAIN table |->
                     [c \in Range(CSV_HEADERS) |->
                         CsvQuoted(FieldText(table[i], c))]]]

export_todos_csv == ExportOf(todos)

\* the header and rows csv.DictReader yields for an exported file
ReadCsv(file) ==
    [header |-> Range(file.header),
     rows |-> [i \in DOMAIN file.records |->
                  [c \in Range(file.header) |-> CsvUnquoted(file.records[i][c])]]]

(* -------------------------------- inputs ------------------------------- *)

TitleInputs == {"Read", " Cloud - Draft "}

StepsInputs == {"", "-", "- a\n+ b", "note\n\n+ a"}

EstimateInputs == {-1000, 0, 2000}

StatusInputs == {"todo", "done", "doing"}

HoursInputs == {-1000, 1000}

EstimateTexts == {"None", "-1", "2.0"}

CompletedAtTexts == {"", " 2025-01-03T10:00:00 ", "no date given"}

StepIdInputs == {StepId(0), StepId(1), StepId(2)}

\* the ids a caller can name: those of the table, and one no row has
IdInputs == {todos[i].id : i \in 1..Len(todos)} \cup {"zz"}

AllColumns ==
    {"id", "title", "due_date", "estimated_hours", "hours_logged", "priority",
     "status", "steps", "created_at", "completed_at"} \cup TripleColumns

BlankCsvRow == [c \in AllColumns |-> ""]

\* a new task, its id left blank
CsvNew ==
    [BlankCsvRow EXCEPT !["title"] = " Read ", !["due_date"] = " 2025-01-02 ",
                        !["estimated_hours"] = "2.0", !["steps"] = " - a\n+ b "]

\* a finished task under the id of another one, its title in three parts
CsvDone ==
    [BlankCsvRow EXCEPT !["id"] = " u1 ", !["category"] = " A ",
                        !["task"] = "B", !["due_date"] = "2025-01-02",
                        !["estimated_hours"] = "-1",
                        !["hours_logged"] = "0.004", !["priority"] = " Low ",
                        !["status"] = " done ", !["steps"] = "+ a",
                        !["created_at"] = "2025-01-01T08:00:00-05:00",
                        !["completed_at"] = " 2025-01-03T10:00:00 "]

\* an open task with a completion date no parser reads
CsvOpen ==
    [BlankCsvRow EXCEPT !["id"] = "x", !["title"] = "Read",
                        !["due_date"] = "2025-01-02",
                        !["estimated_hours"] = "0", !["hours_logged"] = "-1",
                        !["priority"] = "Medium", !["status"] = "todo",
                        !["completed_at"] = "not known yet"]

\* a row whose estimate is no number
CsvBad ==
    [BlankCsvRow EXCEPT !["title"] = "Read", !["due_date"] = "2025-01-02",
                        !["estimated_hours"] = "abc", !["priority"] = "High",
                        !["status"] = "todo"]

CsvRowInputs == {CsvNew, CsvDone, CsvOpen, CsvBad}

\* the CSV bodies: no row, one row, two rows
CsvRowSeqs ==
    {<<>>} \cup {<<r>> : r \in CsvRowInputs}
           \cup {<<r, q>> : r \in CsvRowInputs, q \in CsvRowInputs}

FullHeader == AllColumns \ TripleColumns

CoreHeader == {"title", "due_date", "estimated_hours", "priority", "status"}

TripleHeader ==
    TripleColumns \cup {"id", "due_date", "status", "steps", "completed_at"}

BadHeaders ==
    {FullHeader \ {"priority"},
     {"id", "title", "status"},
     {"category", "project", "title", "due_date"}}

\* the CSV texts: every body under the full header; under the two other
\* headers an import accepts, bodies in which a row has no title because
\* the header lacks its title columns; one row under the headers it rejects
CsvInputs ==
    {[header |-> FullHeader, rows |-> rows] : rows \in CsvRowSeqs}
    \cup {[header |-> header, rows |-> rows] :
              header \in {CoreHeader, TripleHeader},
              rows \in {<<CsvNew>>, <<CsvDone>>, <<CsvDone, CsvNew>>}}
    \cup {[header |-> header, rows |-> <<CsvNew>>] : header \in BadHeaders}

ImportCsv ==
    \E mode \in {"append", "replace"} :
        \/ \E csv \in CsvInputs :
               import_todos_csv(TRUE, csv.header, csv.rows, mode)
        \/ import_todos_csv(FALSE, {}, <<>>, mode)

\* the exported file of the table is imported again
ImportExported ==
    \E mode \in {"append", "replace"} :
        LET csv == ReadCsv(export_todos_csv)
        IN import_todos_csv(TRUE, csv.header, csv.rows, mode)

AddTodo ==
    \E title \in TitleInputs, estimated_hours \in EstimateInputs,
       steps \in StepsInputs :
        add_todo(title, IsoDate(2), estimated_hours, "Medium", steps)

UpdateStatus ==
    \E todo_id \in IdInputs, status \in StatusInputs :
        update_todo_status(todo_id, status)

UpdateHours ==
    \E todo_id \in IdInputs, hours_delta \in HoursInputs :
        update_todo_hours(todo_id, hours_delta)

UpdateEstimatedHours ==
    \E todo_id \in IdInputs, estimated_hours \in EstimateTexts :
        update_todo_estimated_hours(todo_id, estimated_hours)

UpdateDueDate ==
    \E todo_id \in IdInputs, is_date \in BOOLEAN :
        update_todo_due_date(todo_id, is_date, 3, "2025-01-03")

UpdateCompletedAt ==
    \E todo_id \in IdInputs :
        \/ update_todo_completed_at(todo_id, TRUE, today, "")
        \/ \E text \in CompletedAtTexts :
               update_todo_completed_at(todo_id, FALSE, 0, text)

UpdateStep ==
    \E todo_id \in IdInputs, step_id \in StepIdInputs, completed \in BOOLEAN :
        update_todo_step(todo_id, step_id, completed)

GetSteps == \E todo_id \in IdInputs : get_todo_steps(todo_id)

DeleteTodo == \E todo_id \in IdInputs : delete_todo(todo_id)

(* -------------------------------- claims ------------------------------- *)

Rows == 1..Len(todos)

\* the last call was op and it acted on a row, which is still at last.idx
Acted(op) == last.op = op /\ last.idx \in Rows

\* C1: in every reachable state each task has a non-empty completed_at if
\* and only if its status is done.
C1_CompletedIffDone ==
    \A i \in Rows : (todos[i].completed_at # "") <=> (todos[i].status = "done")

\* C2: in every reachable state a task whose parsed step list is non-empty
\* and has every step completed has status done.
C2_AllStepsDoneIsDone ==
    \A i \in Rows :
        AllCompleted(parse_steps(todos[i].steps)) => todos[i].status = "done"

\* C3: in every reachable state no two rows of the table have the same id.
C3_UniqueIds ==
    \A i, j \in Rows : i # j => todos[i].id # todos[j].id

\* C4: in every reachable state every task has hours_logged >= 0 and
\* estimated_hours >= 0.
C4_HoursNonNegative ==
    \A i \in Rows : todos[i].hours_logged >= 0 /\ todos[i].estimated_hours >= 0

\* the step with this id is the only one of steps that is not completed
LastIncomplete(steps, step_id) ==
    \E k \in 1..Len(steps) :
        /\ steps[k].id = step_id
        /\ ~steps[k].completed
        /\ \A j \in 1..Len(steps) : j # k => steps[j].completed

\* C5: after update_todo_step on an existing task, if its step list is
\* non-empty and every step is completed, the task is done, completed_at is
\* today's date, and hours that were zero before are now the estimate (both
\* 1.00 when the estimate was zero); marking the last incomplete step
\* complete always moves the task to done.
C5_StepAutoComplete ==
    Acted("update_todo_step") =>
        LET row == todos[last.idx]
            pre == last.pre
        IN /\ AllCompleted(parse_steps(row.steps)) =>
                  /\ row.status = "done"
                  /\ row.completed_at = TodayIso
                  /\ row.completed_at # ""
                  /\ pre.hours_logged = 0 =>
                         /\ row.hours_logged = row.estimated_hours
                         /\ pre.estimated_hours = 0 =>
                                row.estimated_hours = 100 /\ row.hours_logged = 100
           /\ (last.flag /\ LastIncomplete(parse_steps(pre.steps), last.arg)) =>
                  /\ row.status = "done"
                  /\ row.completed_at # ""
                  /\ AllCompleted(parse_steps(row.steps))

\* the last incomplete step of an open task without hours or estimate was
\* marked complete: the task is done, with 1.00 hours of 1.00
C5_Witness ==
    /\ Acted("update_todo_step")
    /\ last.flag
    /\ LastIncomplete(parse_steps(last.pre.steps), last.arg)
    /\ last.pre.status = "todo"
    /\ last.pre.hours_logged = 0
    /\ last.pre.estimated_hours = 0
    /\ todos[last.idx].status = "done"
    /\ todos[last.idx].hours_logged = 100

\* C6: update_todo_status(id, "done") on an existing task sets status done
\* and completed_at to today; hours that were 0 become the estimate when the
\* estimate is > 0, otherwise hours and estimate both become 1.00; hours that
\* were not 0 leave hours and estimate unchanged.
C6_DoneAutoLogs ==
    (Acted("update_todo_status") /\ last.arg = "done") =>
        LET row == todos[last.idx]
            pre == last.pre
        IN /\ row.status = "done"
           /\ row.completed_at = TodayIso
           /\ IF pre.hours_logged = 0
              THEN IF pre.estimated_hours > 0
                   THEN /\ row.hours_logged = pre.estimated_hours
                        /\ row.estimated_hours = pre.estimated_hours
                   ELSE row.hours_logged = 100 /\ row.estimated_hours = 100
              ELSE /\ row.hours_logged = pre.hours_logged
                   /\ row.estimated_hours = pre.estimated_hours

\* C7: update_todo_status(id, s) with s other than done leaves the task
\* with an empty completed_at, whatever it held before.
C7_NotDoneClearsCompletedAt ==
    (Acted("update_todo_status") /\ last.arg # "done") =>
        todos[last.idx].completed_at = ""

\* a task with a completion date was set back to todo
C7_Witness ==
    /\ Acted("update_todo_status")
    /\ last.arg = "todo"
    /\ last.pre.completed_at # ""
    /\ todos[last.idx].completed_at = ""

\* the steps that leave every row they find at its position
KeepsPositions ==
    last'.op \in {"add_todo", "update_todo_status", "update_todo_hours",
                  "update_todo_estimated_hours", "update_todo_due_date",
                  "update_todo_completed_at", "update_todo_step",
                  "get_todo_steps"}
    \/ (last'.op = "import_todos_csv" /\ last'.arg = "append")

\* this step fills the empty completed_at of the task at row i
FillsCompletedAt(i) ==
    /\ KeepsPositions
    /\ i <= Len(todos')
    /\ todos[i].completed_at = ""
    /\ todos'[i].completed_at # ""

\* this step raises the hours of the task at row i from zero
RaisesHours(i) ==
    /\ KeepsPositions
    /\ i <= Len(todos')
    /\ todos[i].hours_logged = 0
    /\ todos'[i].hours_logged # 0

\* a delete hands on the rows it keeps as they were
DeleteCopies ==
    last'.op = "delete_todo" => Range(todos') \subseteq Range(todos)

\* C8 as stated: apart from the direct edits, update_todo_status is the only
\* operation that fills an empty completed_at or raises hours from zero.
C8_OnlyStatusPopulates ==
    [][/\ \A i \in Rows :
              /\ FillsCompletedAt(i) =>
                     last'.op \in {"update_todo_status", "update_todo_completed_at"}
              /\ RaisesHours(i) =>
                     last'.op \in {"update_todo_status", "update_todo_hours"}
       /\ DeleteCopies]_vars

\* C8 (amended): apart from the direct edits, update_todo_status and
\* update_todo_step are the only operations that fill an empty completed_at
\* or raise hours from zero on an existing task.
C8_StatusAndStepPopulate ==
    [][/\ \A i \in Rows :
              /\ FillsCompletedAt(i) =>
                     last'.op \in {"update_todo_status", "update_todo_step",
                                   "update_todo_completed_at"}
              /\ RaisesHours(i) =>
                     last'.op \in {"update_todo_status", "update_todo_step",
                                   "update_todo_hours"}
       /\ DeleteCopies]_vars

\* a step update has filled completed_at and logged the hours of a task
C8_Witness ==
    /\ Acted("update_todo_step")
    /\ last.pre.completed_at = ""
    /\ last.pre.hours_logged = 0
    /\ todos[last.idx].completed_at # ""
    /\ todos[last.idx].hours_logged # 0

\* the header lacks the category/project/task triple and a core column
LacksCore(header) ==
    /\ ~(TripleColumns \subseteq header)
    /\ \E c \in Range(CoreColumns) : c \notin header

\* C9: an import whose header lacks the triple and any of title, due_date,
\* estimated_hours, priority, status returns ok = false with an error that
\* names exactly the missing columns, and the table is as before, in append
\* and in replace mode.
C9_MissingColumns ==
    [][(last'.op = "import_todos_csv" /\ last'.flag /\ LacksCore(last'.header)) =>
           /\ last'.res = "error"
           /\ Range(last'.missing) = Range(CoreColumns) \ last'.header
           /\ Len(last'.missing) = Cardinality(Range(CoreColumns) \ last'.header)
           /\ todos' = todos]_vars

\* a replacing import without the priority column was refused, and the
\* table still holds rows
C9_Witness ==
    /\ last.op = "import_todos_csv"
    /\ last.arg = "replace"
    /\ last.res = "error"
    /\ last.missing = <<"priority">>
    /\ todos # <<>>

\* the rows of a CSV that carry a title, in order
Titled(header, rows) == SelectSeq(rows, LAMBDA r : TitleCsv(header, r) # "")

\* row is the table row of this CSV row (the id matters only when given)
RowOf(header, r, row) ==
    /\ row.title = TitleCsv(header, r)
    /\ Strip(Cell(header, r, "id")) # "" => row.id = Strip(Cell(header, r, "id"))
    /\ row.due_date = Strip(Cell(header, r, "due_date"))
    /\ row.steps = Strip(Cell(header, r, "steps"))
    /\ row.estimated_hours = Fmt2(NumberCell(header, r, "estimated_hours"))
    /\ row.hours_logged = Fmt2(NumberCell(header, r, "hours_logged"))

\* the new table is the old one (none when replacing) and then one row for
\* every titled row of the CSV
WholeTable(old, new, mode, header, rows) ==
    LET kept == IF mode = "replace" THEN <<>> ELSE old
        titled == Titled(header, rows)
    IN /\ Len(new) = Len(kept) + Len(titled)
       /\ SubSeq(new, 1, Len(kept)) = kept
       /\ \A k \in 1..Len(titled) : RowOf(header, titled[k], new[Len(kept) + k])

\* C10: every import either reports success and the store holds the whole
\* new combined table, or reports an error and the store is as before; a
\* store with only some of the CSV's rows is never seen.
C10_ImportAtomic ==
    [][last'.op = "import_todos_csv" =>
           \/ /\ last'.res = "ok"
              /\ WholeTable(todos, todos', last'.arg, last'.header, last'.rows)
           \/ /\ last'.res \in {"error", "raised"}
              /\ todos' = todos]_vars

\* an appending import of two rows stopped at its second row, whose
\* estimate is no number, and nothing of it is in the table
C10_Witness ==
    /\ last.op = "import_todos_csv"
    /\ last.arg = "append"
    /\ last.res = "raised"
    /\ Len(last.rows) = 2
    /\ ~BadNumber(last.header, last.rows[1])
    /\ TitleCsv(last.header, last.rows[1]) # ""
    /\ BadNumber(last.header, last.rows[2])
    /\ todos # <<>>

\* an import whose header has the core columns and whose rows carry a cell
\* of estimated_hours or hours_logged that is no number
BadNumberImport ==
    /\ last.op = "import_todos_csv"
    /\ last.flag
    /\ MissingCore(last.header) = <<>>
    /\ \E k \in 1..Len(last.rows) : BadNumber(last.header, last.rows[k])

Imported(header, r, row) ==
    \E n \in 1..MaxUlid + 1 : row = NewRow(header, r, n)

\* C12: a successful appending import leaves the previous rows unchanged
\* and in order, followed by the imported rows in CSV order; a successful
\* replacing import leaves exactly the imported rows in CSV order; total is
\* the length of the new table and added the number of rows imported.
C12_ImportModes ==
    [][(last'.op = "import_todos_csv" /\ last'.res = "ok") =>
           LET titled == Titled(last'.header, last'.rows)
               kept == IF last'.arg = "append" THEN todos ELSE <<>>
           IN /\ last'.arg \in {"append", "replace"}
              /\ todos' = kept \o SubSeq(todos', Len(kept) + 1, Len(todos'))
              /\ Len(todos') = Len(kept) + Len(titled)
              /\ \A k \in 1..Len(titled) :
                     Imported(last'.header, titled[k], todos'[Len(kept) + k])
              /\ last'.total = Len(todos')
              /\ last'.added = Len(titled)]_vars

\* an appending import of one row into a table that held another row
C12_Witness ==
    /\ last.op = "import_todos_csv"
    /\ last.arg = "append"
    /\ last.res = "ok"
    /\ last.added = 1
    /\ last.total = 2
    /\ Len(todos) = 2

\* the last call imported, replacing, the export of the table it found
ExportedBack ==
    /\ last'.op = "import_todos_csv"
    /\ last'.arg = "replace"
    /\ last'.flag
    /\ last'.header = ReadCsv(export_todos_csv).header
    /\ last'.rows = ReadCsv(export_todos_csv).rows

\* C13: exporting a table and importing the export in replace mode leaves
\* the table as it was, and exporting again yields the same file.
C13_ExportImportRoundTrip ==
    [][ExportedBack =>
           /\ last'.res = "ok"
           /\ todos' = todos
           /\ ExportOf(todos') = ExportOf(todos)]_vars

\* the ids of a table
Ids(table) == {table[i].id : i \in DOMAIN table}

\* C22: delete_todo(id) removes every row with the id at once and leaves
\* the other rows unchanged and in their order; no step other than an add
\* or an import brings an id into the table, so a deleted id stays away.
C22_DeleteForGood ==
    [][/\ last'.op = "delete_todo" =>
              IF last'.idx = 0 THEN todos' = todos
              ELSE /\ last'.arg \notin Ids(todos')
                   /\ todos' = SelectSeq(todos, LAMBDA r : r.id # last'.arg)
       /\ last'.op \notin {"add_todo", "import_todos_csv"} =>
              Ids(todos') \subseteq Ids(todos)]_vars

\* a delete took the first row of a table and left the row behind it
C22_Witness ==
    /\ last.op = "delete_todo"
    /\ last.idx = 1
    /\ Len(todos) = 1
    /\ todos[1].id # last.arg

\* C24: after update_todo_step the stored blob parses to the step list it
\* parsed to before the call, ids, descriptions and order alike, but for
\* the completed flag of the step named; for every stored blob, blobs with
\* blank or other lines between the steps included.
C24_StepUpdateKeepsList ==
    Acted("update_todo_step") =>
        parse_steps(todos[last.idx].steps)
            = StepsSet(parse_steps(last.pre.steps), last.arg, last.flag)

\* C26: when update_todo_step leaves all steps of a task completed, the
\* status, completed_at, hours_logged and estimated_hours it leaves are
\* those update_todo_status(id, "done") leaves of the same row on that day.
C26_CompletionPathsAgree ==
    (Acted("update_todo_step")
         /\ AllCompleted(parse_steps(todos[last.idx].steps))) =>
        LET row == todos[last.idx]
            by_status == StatusSet(last.pre, "done")
        IN /\ row.status = by_status.status
           /\ row.completed_at = by_status.completed_at
           /\ row.hours_logged = by_status.hours_logged
           /\ row.estimated_hours = by_status.estimated_hours

\* the last open step of an open task with an estimate and no hours was
\* marked complete, and the estimate was logged
C26_Witness ==
    /\ Acted("update_todo_step")
    /\ AllCompleted(parse_steps(todos[last.idx].steps))
    /\ last.pre.status = "todo"
    /\ last.pre.hours_logged = 0
    /\ last.pre.estimated_hours = 200
    /\ todos[last.idx].hours_logged = 200

\* the task has a step of this id
HasStep(row, step_id) ==
    \E k \in DOMAIN parse_steps(row.steps) :
        parse_steps(row.steps)[k].id = step_id

\* C27: a step update never takes a task out of done: marking a step of a
\* done task as not completed changes only the steps blob and leaves
\* status, completed_at, hours_logged and estimated_hours as they were, and
\* every step update of a done task leaves it done.
C27_StepUpdateKeepsDone ==
    (Acted("update_todo_step") /\ last.pre.status = "done") =>
        /\ todos[last.idx].status = "done"
        /\ (~last.flag /\ HasStep(last.pre, last.arg)) =>
               todos[last.idx] = [last.pre EXCEPT !.steps = todos[last.idx].steps]

\* the completed step of a task done on another day was marked as not
\* completed
C27_Witness ==
    /\ Acted("update_todo_step")
    /\ ~last.flag
    /\ last.pre.status = "done"
    /\ last.pre.completed_at \notin {"", TodayIso}
    /\ HasStep(last.pre, last.arg)
    /\ todos[last.idx].steps # last.pre.steps
    /\ todos[last.idx].status = "done"

Next ==
    \/ Tick
    \/ AddTodo
    \/ ImportCsv
    \/ ImportExported
    \/ UpdateStatus
    \/ UpdateHours
    \/ UpdateEstimatedHours
    \/ UpdateDueDate
    \/ UpdateCompletedAt
    \/ UpdateStep
    \/ GetSteps
    \/ DeleteTodo

Spec == Init /\ [][Next]_vars

(* ------------------------- charts.py: the risk ------------------------- *)

\* tasks a risk table is computed of
MaxTasks == 2

\* daily_capacity_hours when the caller gives none, in hundredths of an hour
DefaultCapacity == 200

\* a risk: +infinity, or the fraction num / den of two naturals, den > 0
Inf == [inf |-> TRUE, num |-> 0, den |-> 1]

Ratio(num, den) == [inf |-> FALSE, num |-> num, den |-> den]

\* a < b on risks
RiskLess(a, b) ==
    IF a.inf THEN FALSE
    ELSE IF b.inf THEN TRUE
    ELSE a.num * b.den < b.num * a.den

RiskEqual(a, b) == ~RiskLess(a, b) /\ ~RiskLess(b, a)

\* the day an ISO date text names
DayOf(text) == CHOOSE d \in 1..9 : IsoDate(d) = text

\* max(0.0, estimated_hours - hours_logged), in hundredths
Remaining(row) == Max0(row.estimated_hours - row.hours_logged)

\* a risk_score that calls a task without available hours riskless
risk_score_ZeroWhenUnavailable(row, days_until_due, daily_capacity_hours) ==
    LET available == Max0(days_until_due * Max0(daily_capacity_hours))
    IN IF available = 0 THEN Ratio(0, 1) ELSE Ratio(Remaining(row), available)

\* a risk_score that forgets the capacity and takes two hours a day
risk_score_FixedCapacity(row, days_until_due, daily_capacity_hours) ==
    LET available == Max0(days_until_due * DefaultCapacity)
    IN IF available = 0 THEN Inf ELSE Ratio(Remaining(row), available)

risk_score(row, days_until_due, daily_capacity_hours) ==
    LET remaining == Remaining(row)
        available == Max0(days_until_due * Max0(daily_capacity_hours))
    IN IF available = 0 THEN Inf ELSE Ratio(remaining, available)

\* (due_date - today).days.clip(lower=0)
DaysUntilDue(due_date, day) == Max0(DayOf(due_date) - day)

\* the row of the frame for the i-th task, its index kept as the label
FrameRow(rows, i, day) ==
    [idx |-> i, title |-> rows[i].title, due_date |-> rows[i].due_date,
     remaining_h |-> Remaining(rows[i]),
     risk |-> risk_score(rows[i], DaysUntilDue(rows[i].due_date, day),
                         DefaultCapacity)]

\* an order that puts the lowest risk first
Before_RiskAscending(a, b) ==
    \/ RiskLess(a.risk, b.risk)
    \/ RiskEqual(a.risk, b.risk) /\ DayOf(a.due_date) < DayOf(b.due_date)

\* a comes before b under ["risk", "due_date"], ascending=[False, True];
\* ISO date texts of one length compare as their days do
Before(a, b) ==
    \/ RiskLess(b.risk, a.risk)
    \/ RiskEqual(a.risk, b.risk) /\ DayOf(a.due_date) < DayOf(b.due_date)

\* x put into a sorted frame, behind every row it is not before
RECURSIVE InsertSorted(_, _)
InsertSorted(x, frame) ==
    IF frame = <<>> THEN <<x>>
    ELSE IF Before(x, Head(frame)) THEN <<x>> \o frame
    ELSE <<Head(frame)>> \o InsertSorted(x, Tail(frame))

\* sort_values: a stable sort
RECURSIVE SortValues(_)
SortValues(frame) ==
    IF frame = <<>> THEN <<>>
    ELSE InsertSorted(frame[Len(frame)],
                      SortValues(SubSeq(frame, 1, Len(frame) - 1)))

tasks_risk_dataframe(rows, day) ==
    IF rows = <<>> THEN <<>>
    ELSE SortValues([i \in DOMAIN rows |-> FrameRow(rows, i, day)])

\* the tasks a risk is computed of: due before, on and after the first
\* day, with and without remaining work
RiskRowInputs ==
    {[NoRow EXCEPT !.title = "Read", !.due_date = IsoDate(d),
                   !.estimated_hours = e, !.hours_logged = h] :
         d \in 1..MaxDay + 1, e \in {0, 200}, h \in {0, 100}}

RECURSIVE RiskTables(_)
RiskTables(n) ==
    IF n = 0 THEN {<<>>}
    ELSE LET shorter == RiskTables(n - 1)
         IN shorter \cup {Append(t, r) : t \in {u \in shorter : Len(u) = n - 1},
                                         r \in RiskRowInputs}

\* the slider's capacities, in hundredths of an hour
CapacityInputs == {0, 50, 200}

InitRisk ==
    /\ todos \in RiskTables(MaxTasks)
    /\ today \in 1..MaxDay
    /\ nextUlid = 1
    /\ taken = 0
    /\ last = NoCall

\* risk_score of the i-th task under a capacity
RiskScore ==
    /\ taken = 0
    /\ \E i \in DOMAIN todos, capacity \in CapacityInputs :
           last' = [NoCall EXCEPT
                       !.op = "risk_score", !.idx = i, !.arg = capacity,
                       !.res = risk_score(todos[i],
                                          DaysUntilDue(todos[i].due_date, today),
                                          capacity)]
    /\ taken' = 1
    /\ UNCHANGED <<todos, today, nextUlid>>

\* the worklist of the table, computed while the slider stands at a
\* capacity; tasks_risk_dataframe has no parameter to take it
TasksRisk ==
    /\ taken = 0
    /\ \E capacity \in CapacityInputs :
           last' = [NoCall EXCEPT !.op = "tasks_risk_dataframe",
                                  !.arg = capacity,
                                  !.rows = tasks_risk_dataframe(todos, today)]
    /\ taken' = 1
    /\ UNCHANGED <<todos, today, nextUlid>>

NextRisk ==
    \/ RiskScore
    \/ TasksRisk

SpecRisk == InitRisk /\ [][NextRisk]_vars

\* the task is due on or before today
DueOrOverdue(row) == DayOf(row.due_date) <= today

\* the task has work outstanding
Outstanding(row) == row.estimated_hours - row.hours_logged > 0

\* C14: a task due on or before today with estimated_hours - hours_logged
\* above 0 has risk +infinity, under every daily capacity, from risk_score
\* and in the rows of tasks_risk_dataframe.
C14_OverdueIsInfinite ==
    /\ last.op = "risk_score" =>
           ((DueOrOverdue(todos[last.idx]) /\ Outstanding(todos[last.idx]))
                => last.res = Inf)
    /\ last.op = "tasks_risk_dataframe" =>
           \A k \in DOMAIN last.rows :
               (DueOrOverdue(todos[last.rows[k].idx])
                    /\ Outstanding(todos[last.rows[k].idx]))
                   => last.rows[k].risk = Inf

\* risk_score of an overdue task with outstanding work under a capacity of
\* two hours a day
C14_Witness ==
    /\ last.op = "risk_score"
    /\ last.arg = 200
    /\ DayOf(todos[last.idx].due_date) < today
    /\ Outstanding(todos[last.idx])
    /\ last.res = Inf

\* no hours are available to the task of the last risk_score: it is due on
\* or before today, or the capacity is zero
Unavailable == DueOrOverdue(todos[last.idx]) \/ last.arg = 0

\* C15: risk_score is 0 only when the remaining work is 0, it is +infinity
\* only when the task is due on or before today or the capacity is zero
\* and work is outstanding, and a task with no remaining work never has
\* risk +infinity.
C15_InfiniteOnlyWithWork ==
    last.op = "risk_score" =>
        /\ RiskEqual(last.res, Ratio(0, 1)) => Remaining(todos[last.idx]) = 0
        /\ last.res = Inf => (Unavailable /\ Remaining(todos[last.idx]) > 0)
        /\ Remaining(todos[last.idx]) = 0 => last.res # Inf

\* C15, amended: risk_score is 0 only when the remaining work is 0, and it
\* is +infinity exactly when the task is due on or before today or the
\* capacity is zero, with or without outstanding work; a task with no
\* remaining work has risk +infinity in those cases and 0 in all others.
C15_InfiniteIffUnavailable ==
    last.op = "risk_score" =>
        /\ RiskEqual(last.res, Ratio(0, 1)) => Remaining(todos[last.idx]) = 0
        /\ last.res = Inf <=> Unavailable
        /\ Remaining(todos[last.idx]) = 0 =>
               (last.res # Inf => RiskEqual(last.res, Ratio(0, 1)))

\* risk_score of a task due today with no remaining work, under a capacity
\* above zero
C15_Witness ==
    /\ last.op = "risk_score"
    /\ last.arg > 0
    /\ DayOf(todos[last.idx].due_date) = today
    /\ Remaining(todos[last.idx]) = 0
    /\ last.res = Inf

\* C16: the worklist of tasks_risk_dataframe holds every task of the input
\* exactly once; risk does not increase from first to last, and among rows
\* of equal risk, +infinity included, due_date does not decrease.
C16_WorklistOrder ==
    last.op = "tasks_risk_dataframe" =>
        LET frame == last.rows
        IN /\ Len(frame) = Len(todos)
           /\ {frame[k].idx : k \in DOMAIN frame} = DOMAIN todos
           /\ \A k \in DOMAIN frame :
                  /\ frame[k].title = todos[frame[k].idx].title
                  /\ frame[k].due_date = todos[frame[k].idx].due_date
           /\ \A j, k \in DOMAIN frame :
                  j < k =>
                      /\ ~RiskLess(frame[j].risk, frame[k].risk)
                      /\ RiskEqual(frame[j].risk, frame[k].risk) =>
                             DayOf(frame[j].due_date) <= DayOf(frame[k].due_date)

\* a worklist of two tasks of risk +infinity that puts the second task,
\* due earlier than the first, in front
C16_Witness ==
    /\ last.op = "tasks_risk_dataframe"
    /\ Len(last.rows) = 2
    /\ last.rows[1].idx = 2
    /\ last.rows[1].risk = Inf
    /\ last.rows[2].risk = Inf
    /\ DayOf(last.rows[1].due_date) < DayOf(last.rows[2].due_date)

(* ---------------------- app.py: extract_category ----------------------- *)

\* pieces a title is put together of
MaxPieces == 3

\* a slash rule that leaves the blanks around the first segment
FirstSegment_Untrimmed(title_str) == Split(title_str, "/")[1]

\* parts[0]: the first of the trimmed "/" segments
FirstSegment(title_str) == Strip(Split(title_str, "/")[1])

\* an extract_category that looks for the bracket before the dash
extract_category_BracketFirst(title) ==
    LET title_str == Strip(title)
    IN IF Contains(title_str, "(") /\ Contains(title_str, ")")
       THEN Or(Strip(Split(title_str, "(")[1]), "Uncategorized")
       ELSE IF Contains(title_str, " - ")
       THEN Or(Strip(Split(title_str, " - ")[1]), "Uncategorized")
       ELSE Or(FirstSegment(title_str), "Uncategorized")

extract_category(title) ==
    LET title_str == Strip(title)
    IN IF Contains(title_str, " - ")
       THEN Or(Strip(Split(title_str, " - ")[1]), "Uncategorized")
       ELSE IF Contains(title_str, "(") /\ Contains(title_str, ")")
       THEN Or(Strip(Split(title_str, "(")[1]), "Uncategorized")
       ELSE Or(FirstSegment(title_str), "Uncategorized")

TitlePieces == {" ", " - ", "(", ")", "/", "Math", "Uncategorized"}

\* the texts of at most n pieces
RECURSIVE PieceTitles(_)
PieceTitles(n) ==
    IF n = 0 THEN {""}
    ELSE LET shorter == PieceTitles(n - 1)
         IN shorter \cup {t \o q : t \in shorter, q \in TitlePieces}

TitleWords == {"Cloud Computing", "Project", "Draft slides", "Math"}

\* the title "X (Y) - Z"
BracketDashTitle(x, y, z) == x \o " (" \o y \o ") - " \o z

BracketDashTitles ==
    {BracketDashTitle(x, y, z) : x \in TitleWords, y \in TitleWords,
                                 z \in TitleWords}

CategoryTitleInputs == PieceTitles(MaxPieces) \cup BracketDashTitles

InitCategory ==
    /\ todos = <<>>
    /\ today = 1
    /\ nextUlid = 1
    /\ taken = 0
    /\ last \in {[NoCall EXCEPT !.op = "title", !.arg = t] :
                    t \in CategoryTitleInputs}

\* the category of the title is extracted
ExtractCategory ==
    /\ last.op = "title"
    /\ last' = [last EXCEPT !.op = "extract_category",
                            !.res = extract_category(last.arg)]
    /\ taken' = 1
    /\ UNCHANGED <<todos, today, nextUlid>>

NextCategory == ExtractCategory

SpecCategory == InitCategory /\ [][NextCategory]_vars

\* C17: for every title that contains " - ", titles included whose
\* separator touches the start or the end behind leading or trailing
\* blanks, extract_category is the trimmed text before the first " - ", or
\* "Uncategorized" when that text is empty.
C17_DashCategory ==
    (last.op = "extract_category" /\ Contains(last.arg, " - ")) =>
        last.res = Or(Strip(Split(last.arg, " - ")[1]), "Uncategorized")

\* C18: for a title of the form "X (Y) - Z" extract_category returns X.
C18_BracketDashGivesX ==
    last.op = "extract_category" =>
        \A x, y, z \in TitleWords :
            last.arg = BracketDashTitle(x, y, z) => last.res = x

\* C18, amended: for a title of the form "X (Y) - Z" extract_category
\* returns "X (Y)", the text before the dash.
C18_BracketDashGivesXY ==
    last.op = "extract_category" =>
        \A x, y, z \in TitleWords :
            last.arg = BracketDashTitle(x, y, z) =>
                last.res = x \o " (" \o y \o ")"

\* the category of "Cloud Computing (Project) - Draft slides"
C18_Witness ==
    /\ last.op = "extract_category"
    /\ last.arg = "Cloud Computing (Project) - Draft slides"
    /\ last.res = "Cloud Computing (Project)"

\* neither the dash rule nor the bracket rule applies to the title
NoDashNoBracket(title) ==
    /\ ~Contains(Strip(title), " - ")
    /\ ~(Contains(title, "(") /\ Contains(title, ")"))

\* C19: for a title to which neither the dash rule nor the bracket rule
\* applies, extract_category is "Uncategorized" if and only if the first
\* "/" segment of the title is empty after trimming; otherwise it is that
\* trimmed segment.
C19_UncategorizedIffEmpty ==
    (last.op = "extract_category" /\ NoDashNoBracket(last.arg)) =>
        LET segment == Strip(Split(last.arg, "/")[1])
        IN /\ last.res = "Uncategorized" <=> segment = ""
           /\ segment # "" => last.res = segment

\* C19, amended: for such a title extract_category is the trimmed first
\* "/" segment of the title, and "Uncategorized" when that segment is
\* empty; it is "Uncategorized" if and only if the segment is empty or is
\* itself the text "Uncategorized".
C19_FirstSegmentOrUncategorized ==
    (last.op = "extract_category" /\ NoDashNoBracket(last.arg)) =>
        LET segment == Strip(Split(last.arg, "/")[1])
        IN /\ last.res = IF segment = "" THEN "Uncategorized" ELSE segment
           /\ last.res = "Uncategorized" <=>
                  (segment = "" \/ segment = "Uncategorized")

\* the category of a title whose first segment is blank
C19_Witness ==
    /\ last.op = "extract_category"
    /\ last.arg = " /Math"
    /\ last.res = "Uncategorized"

(* ------------------ db_utils.py: steps, there and back ----------------- *)

\* steps of a list
MaxStepList == 3

\* trimmed descriptions without a line break: empty, plain, and beginning
\* with the mark of a step
StepDescriptions == {"", "a b", "- c", CheckMark \o "d"}

\* the well-formed lists of n steps: ids step_0.. in order, order the
\* position
RECURSIVE StepLists(_)
StepLists(n) ==
    IF n = 0 THEN {<<>>}
    ELSE {Append(l, [id |-> StepId(n - 1), description |-> d,
                     completed |-> c, order |-> n - 1]) :
              l \in StepLists(n - 1), d \in StepDescriptions, c \in BOOLEAN}

StepListInputs == UNION {StepLists(n) : n \in 0..MaxStepList}

InitSteps ==
    /\ todos = <<>>
    /\ today = 1
    /\ nextUlid = 1
    /\ taken = 0
    /\ last \in {[NoCall EXCEPT !.op = "steps", !.rows = l] :
                    l \in StepListInputs}

\* the list is formatted and the text parsed
FormatAndParse ==
    /\ last.op = "steps"
    /\ last' = [last EXCEPT !.op = "parse_steps",
                            !.arg = format_steps(last.rows),
                            !.res = parse_steps(format_steps(last.rows))]
    /\ taken' = 1
    /\ UNCHANGED <<todos, today, nextUlid>>

NextSteps == FormatAndParse

SpecSteps == InitSteps /\ [][NextSteps]_vars

\* C20: parse_steps(format_steps(steps)) is steps, for every well-formed
\* list of steps: the same length, ids, descriptions, completed flags and
\* order, empty descriptions included.
C20_ParseFormatRoundTrip ==
    last.op = "parse_steps" => last.res = last.rows

\* a list that ends in a completed step and a pending one, both with an
\* empty description, came back as it was
C20_Witness ==
    /\ last.op = "parse_steps"
    /\ Len(last.rows) = 3
    /\ last.rows[2].description = "" /\ last.rows[2].completed
    /\ last.rows[3].description = "" /\ ~last.rows[3].completed
    /\ last.res = last.rows

(* ------------------- db_utils.py: get_todo_steps twice ----------------- *)

\* stored titles: without a separator, with one, with two, and one whose
\* text after the separator runs over two lines
GetTitleInputs ==
    {"Read", "Cloud - Draft", "Cloud - Draft - v2", "A - - B", "A - b\nc"}

\* stored blobs: none, one without a step, and three with steps
GetStepsInputs == {"", "note", "- a", "note\n- a", "+ a\n- b"}

InitGet ==
    /\ today = 1
    /\ todos \in {<<[NoRow EXCEPT !.id = Ulid(1), !.title = t,
                                  !.due_date = IsoDate(2), !.priority = "Medium",
                                  !.status = "todo", !.steps = s,
                                  !.created_at = NowIso]>> :
                     t \in GetTitleInputs, s \in GetStepsInputs}
    /\ nextUlid = 2
    /\ taken = 0
    /\ last = NoCall

NextGet == GetSteps

SpecGet == InitGet /\ [][NextGet]_vars

\* the step get_todo_steps makes of a title: pending, its description the
\* text after the first separator
StepOfTitle(title) ==
    [id |-> "step_0", description |-> Strip(Split1(title, " - ")[2]),
     completed |-> FALSE, order |-> 0]

\* C21: for a task with no parsed steps whose title contains " - ",
\* get_todo_steps returns the one pending step of the text after the first
\* separator and stores it; the next get_todo_steps on the task returns the
\* same list and leaves the store unchanged.
C21_DerivedStepIdempotent ==
    [][(last'.op = "get_todo_steps" /\ last'.idx # 0) =>
           /\ (parse_steps(last'.pre.steps) = <<>>
                  /\ Contains(last'.pre.title, " - ")) =>
                  /\ last'.rows = <<StepOfTitle(last'.pre.title)>>
                  /\ parse_steps(todos'[last'.idx].steps) = last'.rows
           /\ (last.op = "get_todo_steps" /\ last.idx = last'.idx) =>
                  /\ last'.rows = last.rows
                  /\ todos' = todos]_vars

\* C25: the risks of tasks_risk_dataframe use the configured daily
\* capacity: the risk of every task is its remaining hours over the days
\* until it is due times the capacity configured, not a fixed capacity.
C25_ConfiguredCapacity ==
    last.op = "tasks_risk_dataframe" =>
        \A k \in DOMAIN last.rows :
            LET row == todos[last.rows[k].idx]
            IN RiskEqual(last.rows[k].risk,
                         risk_score(row, DaysUntilDue(row.due_date, today),
                                    last.arg))

(* --------------- db_utils.py: two callers on one table ----------------- *)

\* The table is a file that every mutation reads whole (read_todos) and
\* rewrites whole (write_todos), without a lock. Two callers each run one
\* mutation; a read and a rewrite of the file are each taken as one step.

Callers == {1, 2}

\* the mutations of the callers: hours logged on the task, or a task added
RaceCalls ==
    {[op |-> "update_todo_hours", hours_delta |-> 1000],
     [op |-> "update_todo_hours", hours_delta |-> 500],
     [op |-> "add_todo", hours_delta |-> 0]}

\* the table before the callers come: one task, with or without hours
RaceTables ==
    {<<[NoRow EXCEPT !.id = Ulid(1), !.title = "Read",
                     !.due_date = IsoDate(2), !.hours_logged = h,
                     !.priority = "Medium", !.status = "todo",
                     !.created_at = IsoDate(1) \o "T09:00:00-05:00"]>> :
         h \in {0, 100}}

\* the state of the callers: pc is "idle" before read_todos, "read" between
\* read_todos and write_todos, "done" once the call has returned; rows is
\* what the caller read, ulid the id it generated, start the table before
\* the callers came, overlap whether both had read before either rewrote
InitRace ==
    /\ today = 1
    /\ todos \in RaceTables
    /\ nextUlid = 2
    /\ taken = 0
    /\ last \in {[op |-> "race", call |-> <<c1, c2>>,
                  pc |-> <<"idle", "idle">>, rows |-> <<todos, todos>>,
                  ulid |-> <<"", "">>, start |-> todos, overlap |-> FALSE] :
                     c1 \in RaceCalls, c2 \in RaceCalls}

\* rows = read_todos(), and for add_todo the id of the new row
RaceRead(p) ==
    /\ last.pc[p] = "idle"
    /\ LET adds == last.call[p].op = "add_todo"
       IN /\ last' = [last EXCEPT
                 !.pc[p] = "read",
                 !.rows[p] = todos,
                 !.ulid[p] = IF adds THEN generate_ulid ELSE "",
                 !.overlap = \E q \in Callers \ {p} : last.pc[q] = "read"]
          /\ nextUlid' = IF adds THEN nextUlid + 1 ELSE nextUlid
    /\ taken' = taken + 1
    /\ UNCHANGED <<todos, today>>

\* the rows a caller hands to write_todos: the rows it read, changed
RaceRows(call, rows, ulid) ==
    IF call.op = "add_todo"
    THEN Append(rows, [id |-> ulid, title |-> "Read", due_date |-> IsoDate(2),
                       estimated_hours |-> Fmt2(0), hours_logged |-> Fmt2(0),
                       priority |-> "Medium", status |-> "todo", steps |-> "",
                       created_at |-> NowIso, completed_at |-> ""])
    ELSE LET i == FirstIdx(rows, Ulid(1))
         IN IF i = 0 THEN rows
            ELSE [rows EXCEPT ![i] = HoursAdded(rows[i], call.hours_delta)]

\* a caller that reads the table again when it rewrites it
RaceWrite_ReadsAgain(p) ==
    /\ last.pc[p] = "read"
    /\ todos' = RaceRows(last.call[p], todos, last.ulid[p])
    /\ last' = [last EXCEPT !.pc[p] = "done"]
    /\ taken' = taken + 1
    /\ UNCHANGED <<today, nextUlid>>

\* write_todos(rows), after which the call returns
RaceWrite(p) ==
    /\ last.pc[p] = "read"
    /\ todos' = RaceRows(last.call[p], last.rows[p], last.ulid[p])
    /\ last' = [last EXCEPT !.pc[p] = "done"]
    /\ taken' = taken + 1
    /\ UNCHANGED <<today, nextUlid>>

Reads == \E p \in Callers : RaceRead(p)

Writes == \E p \in Callers : RaceWrite(p)

NextRace ==
    \/ Reads
    \/ Writes

SpecRace == InitRace /\ [][NextRace]_vars

\* the call of the caller has returned
Acked(p) == last.pc[p] = "done"

\* the hours the task holds when no acknowledged logging is lost, in
\* thousandths
HoursAcked ==
    LET logged(p) == IF Acked(p) /\ last.call[p].op = "update_todo_hours"
                     THEN last.call[p].hours_delta ELSE 0
    IN last.start[1].hours_logged * 10 + logged(1) + logged(2)

\* an acknowledged update is missing from the store: a task added is not
\* there, or the hours of the task are not all those logged
LostUpdate ==
    \/ \E p \in Callers :
           /\ Acked(p)
           /\ last.call[p].op = "add_todo"
           /\ last.ulid[p] \notin Ids(todos)
    \/ todos[1].hours_logged # Fmt2(HoursAcked)

\* C23: when both callers read the table before either rewrites it, the
\* second rewrite overwrites the change of the first, and an acknowledged
\* update is missing from the store; when the callers run one after the
\* other, no update is lost.
C23_LostUpdateOnlyWhenInterleaved ==
    LostUpdate <=> (last.overlap /\ Acked(1) /\ Acked(2))

\* both callers read, the first logged an hour, the second added a task
\* and rewrote the table last: the hour is gone
C23_Witness ==
    /\ last.overlap
    /\ Acked(1) /\ Acked(2)
    /\ last.call[1] = [op |-> "update_todo_hours", hours_delta |-> 1000]
    /\ last.call[2].op = "add_todo"
    /\ last.ulid[2] \in Ids(todos)
    /\ todos[1].hours_logged = last.start[1].hours_logged
    /\ LostUpdate

====
